---- MODULE Spec2Model ----
(***************************************************************************)
(* Model of trackman_utils.py: the rate aggregator, the percentile ranker, *)
(* the wOBA lookups, the per-pitch-type aggregators and the height report. *)
(*                                                                         *)
(* Numbers.  Rates are kept as exact fractions [num, den]; statistic       *)
(* values and plate locations are integers on a fixed grid (hundredths for *)
(* rates, 1/1200 ft for locations).  float('NaN') is the value NaN, and a  *)
(* raised exception is the value Raise(name).                              *)
(***************************************************************************)
EXTENDS Integers, Sequences, FiniteSets, TLC

VARIABLES
    args,     \* the arguments the calls of this run are made with
    calls,    \* the completed calls: records [fn, arg, ret], oldest first
    pc,       \* whiff_by_height: position in the function ("idle" elsewhere)
    frame,    \* whiff_by_height: its local variables
    stdout    \* whiff_by_height: what it has printed so far

vars == <<args, calls, pc, frame, stdout>>

----------------------------------------------------------------------------
(* Python values *)

NaN == [kind |-> "nan", num |-> 0, den |-> 0]

Inf == [kind |-> "inf", num |-> 0, den |-> 0]

Raise(exc) == [kind |-> "raise", exc |-> exc]

Ratio(n, d) == [kind |-> "ratio", num |-> n, den |-> d]

IsRatio(r) == r.kind = "ratio"

IsRaise(r) == r.kind = "raise"

\* a / b on two Python ints (every len(...) is one): true division, which
\* raises on a zero divisor
IntDiv(a, b) == IF b = 0 THEN Raise("ZeroDivisionError") ELSE Ratio(a, b)

\* a / b on two numpy floats (Series.sum()): nan or inf on a zero divisor
FloatDiv(a, b) ==
    IF b = 0 THEN (IF a = 0 THEN NaN ELSE Inf) ELSE Ratio(a, b)

\* comparisons of two fractions with positive denominators
RatioEq(r, n, d) == IsRatio(r) /\ r.num * d = n * r.den

RatioLeq(r, s) == r.num * s.den <= s.num * r.den

\* len(df[mask]): the number of rows of a table that pass a mask is
\* Len(SelectSeq(df, mask)) throughout

\* what the runs that do not call whiff_by_height leave in its variables
Idle == pc = "idle" /\ frame = <<>> /\ stdout = <<>>

----------------------------------------------------------------------------
(* percentile(val, stats_by_pitcher, stat) *)

\* the longest population table
MaxPop == 3

\* values of the ranked statistic, in hundredths (0.10, 0.20, 0.25, ...)
StatValues == {0, 10, 20, 25, 30, 40}

Populations == UNION {[1..n -> StatValues] : n \in 0..MaxPop}

\* DataFrame.sort_values(stat, ascending=True), on the stat column
RECURSIVE Insert(_, _)
Insert(x, s) ==
    IF s = <<>> THEN <<x>>
    ELSE IF x < Head(s) THEN <<x>> \o s
    ELSE <<Head(s)>> \o Insert(x, Tail(s))

RECURSIVE sort_values(_)
sort_values(s) ==
    IF s = <<>> THEN <<>>
    ELSE Insert(s[Len(s)], sort_values(SubSeq(s, 1, Len(s) - 1)))

\* sorted_rates.iloc[i][stat]: position i counts from 0
iloc(sorted_rates, i) ==
    IF i < Len(sorted_rates) THEN Ratio(sorted_rates[i + 1], 1)
    ELSE Raise("IndexError")

\* scan with the comparison made non-strict (val >= entry)
RECURSIVE scan_nonstrict(_, _, _)
scan_nonstrict(val, sorted_rates, i) ==
    LET cur == iloc(sorted_rates, i)
    IN  IF IsRaise(cur) THEN cur
        ELSE IF val >= cur.num THEN scan_nonstrict(val, sorted_rates, i + 1)
        ELSE IntDiv(i, Len(sorted_rates))

\* the while loop of lines 44-45 and the return of line 46
RECURSIVE scan(_, _, _)
scan(val, sorted_rates, i) ==
    LET cur == iloc(sorted_rates, i)
    IN  IF IsRaise(cur) THEN cur
        ELSE IF val > cur.num THEN scan(val, sorted_rates, i + 1)
        ELSE IntDiv(i, Len(sorted_rates))

percentile(val, stats_by_pitcher) ==
    scan(val, sort_values(stats_by_pitcher), 0)

InitPercentile ==
    /\ args \in {[stats_by_pitcher |-> p] : p \in Populations}
    /\ calls = <<>>
    /\ Idle

\* one call; the run keeps the last two calls made on the population
CallPercentile ==
    \E val \in StatValues :
        LET done == [fn |-> "percentile", arg |-> val,
                     ret |-> percentile(val, args.stats_by_pitcher)]
        IN  /\ calls' = (IF Len(calls) < 2 THEN Append(calls, done)
                         ELSE <<calls[2], done>>)
            /\ UNCHANGED <<args, pc, frame, stdout>>

NextPercentile == CallPercentile

SpecPercentile == InitPercentile /\ [][NextPercentile]_vars

\* the population maximum and the number of entries strictly below a value
PopMax(pop) == CHOOSE m \in {pop[k] : k \in DOMAIN pop} :
                   \A k \in DOMAIN pop : pop[k] <= m

Below(val, pop) == Cardinality({k \in DOMAIN pop : pop[k] < val})

\* C1: on a non-empty population, a call whose val is strictly greater than
\* every population value raises nothing and returns 1.0 (the scan stops at
\* the population size).
C1_AboveMaxReturnsOne ==
    \A k \in DOMAIN calls :
        LET pop == args.stats_by_pitcher
        IN  (pop # <<>> /\ calls[k].arg > PopMax(pop))
                => RatioEq(calls[k].ret, 1, 1)

\* C4: on any population (any order, duplicates allowed) and any val not
\* greater than the population maximum, the result is (number of entries
\* strictly less than val) / (population size); [0.1, 0.2, 0.3] with 0.25
\* gives 2/3, and a val below every entry gives 0.
C4_CountBelowOverSize ==
    \A k \in DOMAIN calls :
        LET pop == args.stats_by_pitcher
            val == calls[k].arg
            ret == calls[k].ret
        IN  (pop # <<>> /\ val <= PopMax(pop))
                => /\ IsRatio(ret)
                   /\ ret.num = Below(val, pop)
                   /\ ret.den = Len(pop)
                   /\ (pop = <<10, 20, 30>> /\ val = 25 => RatioEq(ret, 2, 3))
                   /\ ((\A j \in DOMAIN pop : val < pop[j]) => ret.num = 0)

\* C4's case: the population of the example given out of order, ranked at
\* 0.25 (two of three below) and then at its minimum (none below)
C4_Witness ==
    /\ args.stats_by_pitcher = <<30, 10, 20>>
    /\ Len(calls) = 2
    /\ calls[1].arg = 25 /\ RatioEq(calls[1].ret, 2, 3)
    /\ calls[2].arg = 10 /\ RatioEq(calls[2].ret, 0, 1)

\* C5: for a fixed population and two values v1 <= v2, both calls return a
\* result and percentile(v1) <= percentile(v2).
C5_Monotone ==
    \A j, k \in DOMAIN calls :
        (args.stats_by_pitcher # <<>> /\ calls[j].arg <= calls[k].arg)
            => /\ IsRatio(calls[j].ret)
               /\ IsRatio(calls[k].ret)
               /\ RatioLeq(calls[j].ret, calls[k].ret)

----------------------------------------------------------------------------
(* agg_statcast_pitchers(pitcher, min_batters_faced) *)

\* the longest event table of one pitcher
MaxEvents == 2

\* the largest min_batters_faced
MaxThreshold == 2

\* Statcast columns of one event row.  "ball" stands for the descriptions
\* the function names nowhere, "none" for a pitch that ends no appearance;
\* woba_value and woba_denom are the columns the feed fills per event.
Descriptions ==
    {"hit_into_play", "hit_by_pitch", "swinging_strike", "called_strike", "ball"}

Events == {"strikeout", "walk", "none"}

StrikeCounts == {1, 2}

WobaValue(events) == IF events = "walk" THEN 1 ELSE 0

WobaDenom(events) == IF events = "none" THEN 0 ELSE 1

EventRows ==
    {[description |-> d, events |-> e, strikes |-> k,
      woba_value |-> WobaValue(e), woba_denom |-> WobaDenom(e)] :
        d \in Descriptions, e \in Events, k \in StrikeCounts}

EventTables == UNION {[1..n -> EventRows] : n \in 0..MaxEvents}

\* Series.sum() of a column
RECURSIVE series_sum(_)
series_sum(column) ==
    IF column = <<>> THEN 0 ELSE Head(column) + series_sum(Tail(column))

\* line 17-18: the rows that end a plate appearance
is_appearance(r) ==
    \/ r.description \in {"hit_by_pitch", "hit_into_play",
                          "hit_into_play_no_out", "hit_into_play_score"}
    \/ r.events \in {"strikeout", "walk"}

\* the guard with the threshold itself counted as too few
below_threshold_leq(appearances, min_batters_faced) ==
    appearances <= min_batters_faced

\* line 19: the guard of the early return
below_threshold(appearances, min_batters_faced) ==
    appearances < min_batters_faced

\* a returned pandas.Series, with the line of the return statement
Series(line, putaway_rate, whiff_rate, k_rate, bb_rate, woba) ==
    [kind |-> "Series", line |-> line, putaway_rate |-> putaway_rate,
     whiff_rate |-> whiff_rate, k_rate |-> k_rate, bb_rate |-> bb_rate,
     woba |-> woba]

\* an exception, with the line that raised it
RaiseAt(exc, line) == [kind |-> "raise", exc |-> exc, line |-> line]

agg_statcast_pitchers(pitcher, min_batters_faced) ==
    LET appearances == Len(SelectSeq(pitcher, is_appearance))
        pitcher_2str == SelectSeq(pitcher, LAMBDA r : r.strikes = 2)
        putaways == Len(SelectSeq(pitcher_2str, LAMBDA r : r.description \in
                        {"swinging_strike", "swinging_strike_blocked",
                         "called_strike"}))
        putaway_rate == IntDiv(putaways, Len(pitcher_2str))
        whiffs == Len(SelectSeq(pitcher, LAMBDA r : r.description \in
                        {"swinging_strike", "swinging_strike_blocked"}))
        swings == Len(SelectSeq(pitcher, LAMBDA r : r.description \in
                        {"swinging_strike", "swinging_strike_blocked",
                         "hit_into_play", "hit_into_play_no_out",
                         "hit_into_play_score", "foul_tip", "foul",
                         "foul_bunt"}))
        whiff_rate == IntDiv(whiffs, swings)
        strikeouts == Len(SelectSeq(pitcher, LAMBDA r : r.events = "strikeout"))
        k_rate == IntDiv(strikeouts, appearances)
        walks == Len(SelectSeq(pitcher, LAMBDA r : r.events = "walk"))
        bb_rate == IntDiv(walks, appearances)
        woba == FloatDiv(
                    series_sum([k \in DOMAIN pitcher |-> pitcher[k].woba_value]),
                    series_sum([k \in DOMAIN pitcher |-> pitcher[k].woba_denom]))
    IN  IF below_threshold(appearances, min_batters_faced)
        THEN Series(20, NaN, NaN, NaN, NaN, NaN)
        ELSE IF IsRaise(putaway_rate) THEN RaiseAt(putaway_rate.exc, 25)
        ELSE IF IsRaise(whiff_rate) THEN RaiseAt(whiff_rate.exc, 29)
        ELSE IF IsRaise(k_rate) THEN RaiseAt(k_rate.exc, 31)
        ELSE IF IsRaise(bb_rate) THEN RaiseAt(bb_rate.exc, 33)
        ELSE Series(35, putaway_rate, whiff_rate, k_rate, bb_rate, woba)

InitAgg ==
    /\ args \in {[pitcher |-> t, min_batters_faced |-> m] :
                    t \in EventTables, m \in 0..MaxThreshold}
    /\ calls = <<>>
    /\ Idle

CallAgg ==
    /\ calls = <<>>
    /\ calls' = <<[fn |-> "agg_statcast_pitchers",
                   arg |-> args.min_batters_faced,
                   ret |-> agg_statcast_pitchers(args.pitcher,
                                                 args.min_batters_faced)]>>
    /\ UNCHANGED <<args, pc, frame, stdout>>

NextAgg == CallAgg

SpecAgg == InitAgg /\ [][NextAgg]_vars

\* the appearance count of the statement, counted on the table itself
Appearances(pitcher) ==
    Cardinality({k \in DOMAIN pitcher :
        \/ pitcher[k].description \in {"hit_by_pitch", "hit_into_play",
               "hit_into_play_no_out", "hit_into_play_score"}
        \/ pitcher[k].events \in {"strikeout", "walk"}})

AllNaN(ret) ==
    /\ ret.kind = "Series"
    /\ ret.putaway_rate = NaN /\ ret.whiff_rate = NaN /\ ret.k_rate = NaN
    /\ ret.bb_rate = NaN /\ ret.woba = NaN

\* C2: when the appearance count reaches the threshold and no row has
\* strikes == 2, the call raises nothing and returns putaway_rate as NaN.
C2_EmptyTwoStrikeIsNaN ==
    \A k \in DOMAIN calls :
        LET pitcher == args.pitcher
        IN  (/\ Appearances(pitcher) >= args.min_batters_faced
             /\ \A j \in DOMAIN pitcher : pitcher[j].strikes # 2)
                => /\ calls[k].ret.kind = "Series"
                   /\ calls[k].ret.putaway_rate = NaN

\* C3: when the appearance count is strictly below min_batters_faced the
\* call returns all five fields NaN from the early return, computing no
\* ratio; when the count equals or exceeds the threshold the early return
\* is not taken.
C3_EarlyReturnBelowThreshold ==
    \A k \in DOMAIN calls :
        LET ret == calls[k].ret
        IN  IF Appearances(args.pitcher) < args.min_batters_faced
            THEN AllNaN(ret) /\ ret.line = 20
            ELSE ret.line # 20

\* C3's case: a pitcher one appearance short of the threshold, whose table
\* would otherwise give every ratio, has been aggregated
C3_Witness ==
    /\ calls # <<>>
    /\ Appearances(args.pitcher) = 1
    /\ args.min_batters_faced = 2
    /\ \E j \in DOMAIN args.pitcher :
           args.pitcher[j].strikes = 2
           /\ args.pitcher[j].description = "swinging_strike"
    /\ AllNaN(calls[1].ret)

----------------------------------------------------------------------------
(* parse_woba(row, weights) and parse_woba_denom(row, denoms) *)

\* the largest wOBA weight, in tenths of a run
MaxWeight == 2

PlayResults == {"Undefined", "Single", "Out"}

KorBBs == {"Undefined", "Strikeout", "Walk"}

OutcomeLabels == (PlayResults \cup KorBBs) \ {"Undefined"}

Num(x) == Ratio(x, 1)

\* parse_woba with the strikeout/walk label looked at first
parse_woba_korbb_first(row, weights) ==
    IF row.k_or_bb # "Undefined" THEN Num(weights[row.k_or_bb])
    ELSE IF row.play_result # "Undefined" THEN Num(weights[row.play_result])
    ELSE NaN

parse_woba(row, weights) ==
    IF row.play_result # "Undefined" THEN Num(weights[row.play_result])
    ELSE IF row.k_or_bb # "Undefined" THEN Num(weights[row.k_or_bb])
    ELSE NaN

parse_woba_denom(row, denoms) ==
    IF row.play_result # "Undefined" THEN Num(denoms[row.play_result])
    ELSE IF row.k_or_bb # "Undefined" THEN Num(denoms[row.k_or_bb])
    ELSE Num(0)

InitWoba ==
    /\ args \in {[row |-> [play_result |-> p, k_or_bb |-> k],
                  weights |-> w, denoms |-> d] :
                    p \in PlayResults, k \in KorBBs,
                    w \in [OutcomeLabels -> 0..MaxWeight],
                    d \in [OutcomeLabels -> {0, 1}]}
    /\ calls = <<>>
    /\ Idle

Called(fn) == \E k \in DOMAIN calls : calls[k].fn = fn

CallParseWoba ==
    /\ ~Called("parse_woba")
    /\ calls' = Append(calls, [fn |-> "parse_woba", arg |-> args.row,
                               ret |-> parse_woba(args.row, args.weights)])
    /\ UNCHANGED <<args, pc, frame, stdout>>

CallParseWobaDenom ==
    /\ ~Called("parse_woba_denom")
    /\ calls' = Append(calls, [fn |-> "parse_woba_denom", arg |-> args.row,
                               ret |-> parse_woba_denom(args.row, args.denoms)])
    /\ UNCHANGED <<args, pc, frame, stdout>>

NextWoba == CallParseWoba \/ CallParseWobaDenom

SpecWoba == InitWoba /\ [][NextWoba]_vars

\* C7: if play_result is defined both lookups return the table entry for
\* play_result, whatever k_or_bb is; else if k_or_bb is defined, the entry
\* for k_or_bb; else the weight is NaN and the denominator is 0.  The two
\* functions resolve the same key for the same record.
C7_WobaLookup ==
    \A k \in DOMAIN calls :
        LET row == args.row
            ret == calls[k].ret
            table == IF calls[k].fn = "parse_woba" THEN args.weights
                     ELSE args.denoms
        IN  /\ row.play_result # "Undefined"
                => ret = Num(table[row.play_result])
            /\ (row.play_result = "Undefined" /\ row.k_or_bb # "Undefined")
                => ret = Num(table[row.k_or_bb])
            /\ (row.play_result = "Undefined" /\ row.k_or_bb = "Undefined")
                => ret = (IF calls[k].fn = "parse_woba" THEN NaN ELSE Num(0))

\* C7's case: a record with both labels defined, under tables that tell the
\* two labels apart, has gone through both lookups
C7_Witness ==
    /\ Called("parse_woba") /\ Called("parse_woba_denom")
    /\ args.row = [play_result |-> "Single", k_or_bb |-> "Strikeout"]
    /\ args.weights["Single"] # args.weights["Strikeout"]
    /\ args.denoms["Single"] # args.denoms["Strikeout"]

----------------------------------------------------------------------------
(* parse_putaway(row, calls_by_pitch, statcast) and
   parse_whiff(row, calls_by_pitch) *)

PitchTypes == {"Fastball", "Slider"}

\* outcome labels of the two feeds
TrackmanCalls ==
    {"StrikeSwinging", "StrikeCalled", "BallCalled", "FoulBall", "InPlay"}

StatcastCalls ==
    {"swinging_strike", "swinging_strike_blocked", "called_strike", "ball"}

\* counts of one outcome, as a group-by reports them (never zero)
Counts == {2, 3, 5}

\* one pitch type's outcome counts: the labels seen, each with its count
CallCounts ==
    UNION {[L -> Counts] : L \in (SUBSET TrackmanCalls) \cup (SUBSET StatcastCalls)}

\* the group-by: the pitch types seen, each with its outcome counts
CallsByPitch == UNION {[K -> {m}] : K \in SUBSET PitchTypes, m \in CallCounts}

\* a for loop over an index that adds term[outcome] to an accumulator
RECURSIVE Accumulate(_, _)
Accumulate(term, index) ==
    IF index = {} THEN 0
    ELSE LET outcome == CHOOSE o \in index : TRUE
         IN  term[outcome] + Accumulate(term, index \ {outcome})

\* parse_putaway with line 137 indented into the branches above it
parse_putaway_total_of_strikes(name, calls_by_pitch, statcast) ==
    IF name \in DOMAIN calls_by_pitch
    THEN LET counts == calls_by_pitch[name]
             Strike(outcome) ==
                 IF ~statcast
                 THEN outcome = "StrikeSwinging" \/ outcome = "StrikeCalled"
                 ELSE outcome \in {"swinging_strike",
                                   "swinging_strike_blocked", "called_strike"}
             total_k == Accumulate([o \in DOMAIN counts |->
                                       IF Strike(o) THEN counts[o] ELSE 0],
                                   DOMAIN counts)
         IN  IntDiv(total_k, total_k)
    ELSE NaN

parse_putaway(name, calls_by_pitch, statcast) ==
    IF name \in DOMAIN calls_by_pitch
    THEN LET counts == calls_by_pitch[name]
             Strike(outcome) ==
                 IF ~statcast
                 THEN outcome = "StrikeSwinging" \/ outcome = "StrikeCalled"
                 ELSE outcome \in {"swinging_strike",
                                   "swinging_strike_blocked", "called_strike"}
             total_k == Accumulate([o \in DOMAIN counts |->
                                       IF Strike(o) THEN counts[o] ELSE 0],
                                   DOMAIN counts)
             total == Accumulate(counts, DOMAIN counts)
         IN  IntDiv(total_k, total)
    ELSE NaN

\* parse_whiff without the membership test of line 97
parse_whiff_unguarded(name, calls_by_pitch) ==
    IF name \in DOMAIN calls_by_pitch
    THEN LET counts == calls_by_pitch[name]
             Get(o) == IF o \in DOMAIN counts THEN counts[o] ELSE 0
             whiffs == Get("StrikeSwinging")
             swings == whiffs + Get("FoulBall") + Get("InPlay")
         IN  IF swings > 0 THEN IntDiv(whiffs, swings) ELSE NaN
    ELSE Raise("KeyError")

parse_whiff(name, calls_by_pitch) ==
    IF name \in DOMAIN calls_by_pitch
    THEN LET counts == calls_by_pitch[name]
             whiffs == IF "StrikeSwinging" \in DOMAIN counts
                       THEN counts["StrikeSwinging"] ELSE 0
             swings == whiffs
                       + (IF "FoulBall" \in DOMAIN counts
                          THEN counts["FoulBall"] ELSE 0)
                       + (IF "InPlay" \in DOMAIN counts
                          THEN counts["InPlay"] ELSE 0)
         IN  IF swings > 0 THEN IntDiv(whiffs, swings) ELSE NaN
    ELSE NaN

InitPitchType ==
    /\ args \in {[row |-> [name |-> n], calls_by_pitch |-> c, statcast |-> f] :
                    n \in PitchTypes, c \in CallsByPitch, f \in BOOLEAN}
    /\ calls = <<>>
    /\ Idle

CallParsePutaway ==
    /\ ~Called("parse_putaway")
    /\ calls' = Append(calls,
                    [fn |-> "parse_putaway", arg |-> args.statcast,
                     ret |-> parse_putaway(args.row.name, args.calls_by_pitch,
                                           args.statcast)])
    /\ UNCHANGED <<args, pc, frame, stdout>>

CallParseWhiff ==
    /\ ~Called("parse_whiff")
    /\ calls' = Append(calls,
                    [fn |-> "parse_whiff", arg |-> args.row.name,
                     ret |-> parse_whiff(args.row.name, args.calls_by_pitch)])
    /\ UNCHANGED <<args, pc, frame, stdout>>

NextPitchType == CallParsePutaway \/ CallParseWhiff

SpecPitchType == InitPitchType /\ [][NextPitchType]_vars

\* the count of a label in one pitch type's counts, 0 when it is not there
CountOf(counts, label) == IF label \in DOMAIN counts THEN counts[label] ELSE 0

TotalOf(counts) ==
    CountOf(counts, "StrikeSwinging") + CountOf(counts, "StrikeCalled")
    + CountOf(counts, "BallCalled") + CountOf(counts, "FoulBall")
    + CountOf(counts, "InPlay") + CountOf(counts, "swinging_strike")
    + CountOf(counts, "swinging_strike_blocked")
    + CountOf(counts, "called_strike") + CountOf(counts, "ball")

StrikeEnding(counts, statcast) ==
    IF statcast
    THEN CountOf(counts, "swinging_strike")
         + CountOf(counts, "swinging_strike_blocked")
         + CountOf(counts, "called_strike")
    ELSE CountOf(counts, "StrikeSwinging") + CountOf(counts, "StrikeCalled")

ExampleCounts ==
    [o \in {"StrikeSwinging", "StrikeCalled", "BallCalled"} |->
        IF o = "StrikeSwinging" THEN 3 ELSE IF o = "StrikeCalled" THEN 2 ELSE 5]

IsExample ==
    /\ args.row.name = "Fastball"
    /\ args.calls_by_pitch = [n \in {"Fastball"} |-> ExampleCounts]

\* the part of C6 that does not depend on the example: for a pitch type in
\* the mapping with some outcome counted, the result is (strike-ending
\* counts of the selected feed's labels) / (all counts)
PutawayIsStrikeShare(c) ==
    LET name == args.row.name
    IN  (/\ c.fn = "parse_putaway"
         /\ name \in DOMAIN args.calls_by_pitch
         /\ TotalOf(args.calls_by_pitch[name]) > 0)
            => /\ IsRatio(c.ret)
               /\ c.ret.num = StrikeEnding(args.calls_by_pitch[name],
                                           args.statcast)
               /\ c.ret.den = TotalOf(args.calls_by_pitch[name])

C9_AbsentPitchTypeIsNaN ==
    \A k \in DOMAIN calls :
        args.row.name \notin DOMAIN args.calls_by_pitch => calls[k].ret = NaN

\* C9's case: both aggregators have been asked for a pitch type the mapping
\* lacks, the mapping holding another pitch type
C9_Witness ==
    /\ Called("parse_putaway") /\ Called("parse_whiff")
    /\ args.row.name = "Slider"
    /\ DOMAIN args.calls_by_pitch = {"Fastball"}
    /\ TotalOf(args.calls_by_pitch["Fastball"]) > 0

----------------------------------------------------------------------------
(* whiff_by_height(pitches, df, heights, putaway=False) *)

\* the longest table of pitches
MaxPitchRows == 2

\* "universal" strike zone of lines 156-159, in 1/1200 ft: 18.29/12 ft,
\* lowerb + 25.79/12 ft, -9.97/12 ft, leftb + 19.94/12 ft
lowerb == 1829

upperb == lowerb + 2579

leftb == -997

rightb == leftb + 1994

\* where a pitch crosses the plate, <<side, height>> in 1/1200 ft: on the
\* 2 ft line over the middle, 2.5 ft over the middle, 4.5 ft and 1 ft wide
PlateLocs == {<<0, 2400>>, <<0, 3000>>, <<1200, 5400>>}

PitchCalls == {"StrikeSwinging", "StrikeCalled", "FoulBall"}

PitchRows ==
    {[tagged_pitch_type |-> t, plate_loc_side |-> l[1],
      plate_loc_height |-> l[2], pitch_call |-> c] :
        t \in PitchTypes, l \in PlateLocs, c \in PitchCalls}

PitchTables == UNION {[1..n -> PitchRows] : n \in 0..MaxPitchRows}

\* height bands (low, high]: 0-2 ft and 2-4 ft
LowBand == <<0, 2400>>

MidBand == <<2400, 4800>>

HeightLists ==
    {<<>>, <<MidBand>>, <<LowBand, MidBand>>, <<MidBand, LowBand>>,
     <<LowBand, LowBand>>}

PitchLists == {<<>>, <<"Fastball">>, <<"Fastball", "Slider">>}

None == [kind |-> "None"]

\* lines 165-166: the rows of one pitch type in one band
bucket(df, pitch, height) ==
    SelectSeq(df, LAMBDA r : /\ r.tagged_pitch_type = pitch
                             /\ r.plate_loc_height > height[1]
                             /\ r.plate_loc_height <= height[2])

InitHeight ==
    /\ args \in {[pitches |-> ps, df |-> t, heights |-> hs] :
                    ps \in PitchLists, t \in PitchTables, hs \in HeightLists}
    /\ calls = <<>>
    /\ pc = "for_pitch"
    /\ frame = [p |-> 1, h |-> 1, freqs |-> <<>>]
    /\ stdout = <<>>

Finish(ret) ==
    calls' = <<[fn |-> "whiff_by_height", arg |-> args.pitches, ret |-> ret]>>

\* line 161-162: the next pitch type, or the end of the function
ForPitch ==
    /\ pc = "for_pitch"
    /\ IF frame.p > Len(args.pitches)
       THEN /\ pc' = "returned"
            /\ Finish(None)
            /\ UNCHANGED frame
       ELSE /\ pc' = "for_height"
            /\ frame' = [frame EXCEPT !.h = 1, !.freqs = <<>>]
            /\ UNCHANGED calls
    /\ UNCHANGED <<args, stdout>>

\* lines 164-194: the body of the loop over the bands, for one band
ForHeight ==
    /\ pc = "for_height"
    /\ frame.h <= Len(args.heights)
    /\ LET pitch == args.pitches[frame.p]
           height == args.heights[frame.h]
           df_pitch == bucket(args.df, pitch, height)
           whiffs == Len(SelectSeq(df_pitch,
                         LAMBDA r : r.pitch_call = "StrikeSwinging"))
           swings == Len(SelectSeq(df_pitch, LAMBDA r : r.pitch_call \in
                         {"StrikeSwinging", "InPlay", "FoulBall"}))
           whiff_rate == IF swings > 0 THEN IntDiv(whiffs, swings) ELSE NaN
           clean == Len(SelectSeq(df_pitch, LAMBDA r : r.pitch_call \in
                         {"StrikeSwinging", "StrikeCalled"}))
           chances == Len(df_pitch)
           called_str == Len(SelectSeq(df_pitch,
                             LAMBDA r : r.pitch_call = "StrikeCalled"))
           strikes == Len(SelectSeq(df_pitch, LAMBDA r :
                          /\ r.plate_loc_height >= lowerb
                          /\ r.plate_loc_height <= upperb
                          /\ r.plate_loc_side >= leftb
                          /\ r.plate_loc_side <= rightb))
           clean_rate == IntDiv(clean, chances)
           info == [line |-> "INFO FOR", pitch |-> pitch, height |-> height]
       IN  IF IsRaise(clean_rate)
           THEN /\ stdout' = Append(stdout, info)
                /\ pc' = "raised"
                /\ Finish(RaiseAt(clean_rate.exc, 178))
                /\ UNCHANGED frame
           ELSE /\ stdout' = stdout \o
                      <<info,
                        [line |-> "diagnostics", pitch |-> pitch,
                         height |-> height, clean_rate |-> clean_rate,
                         whiff_rate |-> whiff_rate, whiffs |-> whiffs,
                         called_strikes |-> called_str, swings |-> swings,
                         strikes |-> strikes, chances |-> chances],
                        [line |-> "plot", pitch |-> pitch, height |-> height,
                         points |-> chances]>>
                /\ frame' = [frame EXCEPT
                       !.h = @ + 1,
                       !.freqs = [b \in DOMAIN frame.freqs \cup {height} |->
                                     IF b = height THEN chances
                                     ELSE frame.freqs[b]]]
                /\ UNCHANGED <<pc, calls>>
    /\ UNCHANGED args

\* lines 195-198: after the last band, the counts become frequencies
Normalise ==
    /\ pc = "for_height"
    /\ frame.h > Len(args.heights)
    /\ LET freqs == frame.freqs
           total == Accumulate(freqs, DOMAIN freqs)
       IN  IF DOMAIN freqs # {} /\ total = 0
           THEN /\ pc' = "raised"
                /\ Finish(RaiseAt("ZeroDivisionError", 197))
                /\ UNCHANGED <<frame, stdout>>
           ELSE /\ pc' = "for_pitch"
                /\ frame' = [frame EXCEPT
                       !.p = @ + 1,
                       !.freqs = [b \in DOMAIN freqs |-> IntDiv(freqs[b], total)]]
                /\ stdout' = Append(stdout,
                       [line |-> "frequencies", pitch |-> args.pitches[frame.p],
                        freqs |-> [b \in DOMAIN freqs |->
                                      IntDiv(freqs[b], total)]])
                /\ UNCHANGED calls
    /\ UNCHANGED args

NextHeight == ForPitch \/ ForHeight \/ Normalise

SpecHeight == InitHeight /\ [][NextHeight]_vars

\* the bands of the list, and the rows of a pitch type that fall in a band
BandsOf(heights) == {heights[k] : k \in DOMAIN heights}

InBand(pitch, band) ==
    {k \in DOMAIN args.df :
        /\ args.df[k].tagged_pitch_type = pitch
        /\ args.df[k].plate_loc_height > band[1]
        /\ args.df[k].plate_loc_height <= band[2]}

RECURSIVE SumOf(_, _)
SumOf(f, S) ==
    IF S = {} THEN 0
    ELSE LET x == CHOOSE y \in S : TRUE IN f[x] + SumOf(f, S \ {x})

BandTotal(pitch) ==
    SumOf([b \in BandsOf(args.heights) |-> Cardinality(InBand(pitch, b))],
          BandsOf(args.heights))

Stopped == pc \in {"returned", "raised"}

SumsToOne(freqs) ==
    /\ \A b \in DOMAIN freqs : IsRatio(freqs[b])
    /\ \E total \in 1..Len(args.df) * Len(args.heights) :
        /\ \A b \in DOMAIN freqs : freqs[b].den = total
        /\ SumOf([b \in DOMAIN freqs |-> freqs[b].num], DOMAIN freqs) = total

\* C8: for every pitch type of the list whose rows in the bands number more
\* than zero, the function reaches the end of that pitch type's band loop
\* and emits a frequency mapping whose values sum to 1, also when one of the
\* bands holds no row of that pitch type.
C8_FrequenciesSumToOne ==
    /\ pc = "raised" => BandTotal(args.pitches[frame.p]) = 0
    /\ \A k \in DOMAIN stdout :
           (stdout[k].line = "frequencies" /\ BandTotal(stdout[k].pitch) > 0)
               => SumsToOne(stdout[k].freqs)

\* C10: every (pitch type, band) bucket with no rows has its ratio
\* diagnostics emitted as NaN and no error is raised, so the report goes on
\* to the remaining bands and pitch types; and a pitch type with every band
\* empty does not make the frequency normalisation raise.
C10_EmptyBucketIsNaN ==
    Stopped =>
        /\ pc = "returned"
        /\ \A p \in DOMAIN args.pitches : \A b \in BandsOf(args.heights) :
               InBand(args.pitches[p], b) = {}
                   => \E k \in DOMAIN stdout :
                          /\ stdout[k].line = "diagnostics"
                          /\ stdout[k].pitch = args.pitches[p]
                          /\ stdout[k].height = b
                          /\ stdout[k].clean_rate = NaN
                          /\ stdout[k].whiff_rate = NaN

====
